---- MODULE Spec2Model ----
(***************************************************************************)
(* Command correlation and device-state reconciliation of the OTA admin    *)
(* frontend: the OTA page (frontend/src/pages/OTA.jsx), the Devices page   *)
(* (unnamed/part_001) and the older Devices page (unnamed/part_002).       *)
(*                                                                         *)
(* Each page is a React component: its useState cells are the variables,   *)
(* every handler (a WebSocket message, a timer tick, a click, the          *)
(* continuation after an await) is one atomic action of the single event   *)
(* loop.  The backend is not part of the sources; what it stores and what  *)
(* it returns is modelled as an environment (srvHistory, srvDevices).      *)
(***************************************************************************)
EXTENDS Integers, Sequences, FiniteSets, TLC

\* ------------------------------------------------------------------ bounds
\* Event timestamps are 1..MaxTs; NoTs stands for an absent timestamp.
MaxTs == 2
\* Cap on the length of one command's acks log.
MaxAcks == 2
\* Cap on the number of getOtaHistory() calls in flight at once.
MaxFetch == 2
\* Cap on the number of getDevices() calls in flight at once.
MaxDevFetch == 1
\* device_status events are taken while the registry holds fewer rows than this.
MaxDevices == 3
\* Cap on the number of dispatches (POST /send-command) of one run.
MaxSends == 1
\* Clock steps of a run of the Devices page that does not wait for a timeout.
MaxTicks == 1

\* ------------------------------------------------------------ JS values
\* undefined / a missing string field
None == "none"
\* undefined / a missing (falsy) timestamp
NoTs == 0

VARIABLES
    \* OTA page
    commands,      \* useState([]) : the Command History
    sending,       \* useState(false)
    error,         \* useState("") : "" or the message of the last caught error
    sendTask,      \* the running onSend: its position, the body it posted, the id it got
    posts,         \* number of POST /send-command requests issued by onSend
    dispatched,    \* number of onSend calls that passed validation
    histFetch,     \* getOtaHistory() calls in flight, with the response they carry
    lastAck,       \* history variable: the last ack applied to a known command
                   \* while a getOtaHistory() call still in flight was in flight
    srvHistory,    \* the backend's command history
    \* Devices page
    devices,       \* useState([]) : the Device Registry
    pendingConfig, \* useState({}) : sensor_id -> { command_id, started_at }
    pendingHealth, \* useState({}) : sensor_id -> { command_id, started_at }
    now,           \* Date.now(), in ms
    requests,      \* sendOta calls of onGetConfig / onHealthCheck in flight
    issued,        \* number of such calls made so far
    devFetch,      \* getDevices() calls in flight, with the response they carry
    editTask,      \* the running onDelete
    lastEvent,     \* history variable: the last config / health event handled
                   \* since the last registry refresh, or that the last
                   \* message was dropped
    srvDevices     \* the backend's device registry

otaVars == <<commands, sending, sendTask, posts, dispatched,
             histFetch, lastAck, srvHistory>>
devVars == <<devices, pendingConfig, pendingHealth, now, requests, issued,
             devFetch, editTask, lastEvent, srvDevices>>
vars == <<commands, sending, error, sendTask, posts, dispatched,
          histFetch, lastAck, srvHistory,
          devices, pendingConfig, pendingHealth, now, requests, issued,
          devFetch, editTask, lastEvent, srvDevices>>

\* ------------------------------------------------------------ messages
Sensors == {"d1", "d2", "d3"}
CmdIds == <<"c1", "c2", "c3", "c4">>
UnknownCmd == "c9"

NoMsg == [type |-> "none", command_id |-> None, sensor_id |-> None,
          timestamp |-> NoTs, payload |-> [status |-> None]]

\* {type:"ack", sensor_id, command_id, payload, timestamp?}: each device reports
\* one outcome; an ack may name no sensor, an unknown command, a non-target (d3)
AckStatus(sid) == IF sid = "d2" THEN "failed" ELSE "success"

Ack(cid, sid, ts) ==
    [type |-> "ack", command_id |-> cid, sensor_id |-> sid, timestamp |-> ts,
     payload |-> [status |-> AckStatus(sid)]]

AckMsgs ==
    {Ack(cid, sid, ts) : cid \in {CmdIds[1], CmdIds[2], UnknownCmd},
                         sid \in Sensors \cup {None}, ts \in 0..MaxTs}

\* `x || y` on strings / timestamps
OrStr(x, y) == IF x # None THEN x ELSE y
OrTs(x, y) == IF x # NoTs THEN x ELSE y

\* ------------------------------------------------------------ commands
NoRows == [s \in {} |-> NoMsg]

\* updated.findIndex((c) => c.command_id === msg.command_id)
FindIndex(cmds, cid) ==
    IF \E i \in 1..Len(cmds) : cmds[i].command_id = cid
    THEN CHOOSE i \in 1..Len(cmds) :
            /\ cmds[i].command_id = cid
            /\ \A j \in 1..(i - 1) : cmds[j].command_id # cid
    ELSE 0

\* perDevice[msg.sensor_id] = { ...(perDevice[msg.sensor_id] || {}), status: "acked", ack: msg }
AckRow(perDevice, msg) ==
    [status |-> "acked",
     reason |-> IF msg.sensor_id \in DOMAIN perDevice
                THEN perDevice[msg.sensor_id].reason ELSE None,
     ack |-> msg]

\* AckPerDevice without the spread of cur.per_device: only the sender's row is kept
AckPerDeviceFresh(cur, msg) ==
    IF msg.sensor_id # None
    THEN [s \in {msg.sensor_id} |-> AckRow(cur.per_device, msg)]
    ELSE cur.per_device

\* const perDevice = { ...(cur.per_device || {}) }; if (msg.sensor_id) perDevice[...] = ...
AckPerDevice(cur, msg) ==
    IF msg.sensor_id # None
    THEN [s \in (DOMAIN cur.per_device) \cup {msg.sensor_id} |->
            IF s = msg.sensor_id THEN AckRow(cur.per_device, msg)
            ELSE cur.per_device[s]]
    ELSE cur.per_device

\* last_update: msg.timestamp || cur.last_update
AckLastUpdate(cur, msg) == OrTs(msg.timestamp, cur.last_update)

\* AckCommand that also settles the command's overall status
AckCommandSettled(cur, msg) ==
    [cur EXCEPT !.ack = msg,
                !.acks = Append(cur.acks, msg),
                !.per_device = AckPerDevice(cur, msg),
                !.last_update = AckLastUpdate(cur, msg),
                !.status = "acked"]

\* updated[idx] = { ...cur, ack: msg, acks, per_device: perDevice, last_update: ... }
AckCommand(cur, msg) ==
    [cur EXCEPT !.ack = msg,
                !.acks = Append(cur.acks, msg),
                !.per_device = AckPerDevice(cur, msg),
                !.last_update = AckLastUpdate(cur, msg)]

\* an updater that books an ack for a command_id it does not know on the first
\* command
ApplyAckToFirst(prev, msg) ==
    LET idx == FindIndex(prev, msg.command_id) IN
    IF idx >= 1 THEN [prev EXCEPT ![idx] = AckCommand(prev[idx], msg)]
    ELSE IF Len(prev) >= 1 THEN [prev EXCEPT ![1] = AckCommand(prev[1], msg)]
    ELSE prev

\* the setCommands((prev) => ...) updater of the ack branch
ApplyAck(prev, msg) ==
    LET idx == FindIndex(prev, msg.command_id) IN
    IF idx >= 1 THEN [prev EXCEPT ![idx] = AckCommand(prev[idx], msg)]
    ELSE prev

\* ------------------------------------------------------------ devices
\* setInterval(..., 1000) of the timeout cleanup, and its 30 s limit, in ms
SweepMs == 1000
TimeoutMs == 30000
\* the clock advances in steps of half a sweep period
StepMs == SweepMs \div 2

\* correlation ids the backend assigns to get_configuration / health_check
GetIds == <<"g1", "g2", "g3", "g4">>

\* a device without latest_configuration / latest_health
NoBody == [status |-> None, time |-> NoTs, config |-> None, error |-> None,
           command_id |-> None]
NoConfiguration ==
    [command_id |-> None, status |-> None, received_at |-> NoTs,
     device_time |-> NoTs, config |-> None, error |-> None]
NoHealth ==
    [command_id |-> None, status |-> None, received_at |-> NoTs,
     device_time |-> NoTs, health |-> NoBody, error |-> None]

Device(sensor_id, device_id, online) ==
    [sensor_id |-> sensor_id, device_id |-> device_id, device_name |-> None,
     online |-> online,
     latest_configuration |-> NoConfiguration, latest_health |-> NoHealth]

\* const sid = d.sensor_id || d.device_id
KeyOf(d) == OrStr(d.sensor_id, d.device_id)

\* prev.findIndex((d) => (d.sensor_id || d.device_id) === sid)
FindDevice(devs, sid) ==
    IF \E i \in 1..Len(devs) : KeyOf(devs[i]) = sid
    THEN CHOOSE i \in 1..Len(devs) :
            /\ KeyOf(devs[i]) = sid
            /\ \A j \in 1..(i - 1) : KeyOf(devs[j]) # sid
    ELSE 0

\* nextLatestConfiguration: built from the message alone (msg.payload || {}), the
\* receipt time falling back to the local clock
NextLatestConfiguration(msg, clock) ==
    [command_id |-> OrStr(msg.command_id, msg.payload.command_id),
     status |-> OrStr(msg.payload.status, "unknown"),
     received_at |-> OrTs(msg.timestamp, clock),
     device_time |-> msg.payload.time,
     config |-> msg.payload.config,
     error |-> msg.payload.error]

\* nextLatestHealth: as above, health being the whole payload
NextLatestHealth(msg, clock) ==
    [command_id |-> OrStr(msg.command_id, msg.payload.command_id),
     status |-> OrStr(msg.payload.status, "unknown"),
     received_at |-> OrTs(msg.timestamp, clock),
     device_time |-> msg.payload.time,
     health |-> msg.payload,
     error |-> msg.payload.error]

\* setDevices((prev) => prev.map((d) => sid !== msg.sensor_id ? d : { ...d, latest_configuration }))
SetLatestConfiguration(prev, msg, clock) ==
    [i \in 1..Len(prev) |->
        IF KeyOf(prev[i]) # msg.sensor_id THEN prev[i]
        ELSE [prev[i] EXCEPT !.latest_configuration = NextLatestConfiguration(msg, clock)]]

\* setDevices((prev) => prev.map((d) => sid !== msg.sensor_id ? d : { ...d, latest_health }))
SetLatestHealth(prev, msg, clock) ==
    [i \in 1..Len(prev) |->
        IF KeyOf(prev[i]) # msg.sensor_id THEN prev[i]
        ELSE [prev[i] EXCEPT !.latest_health = NextLatestHealth(msg, clock)]]

\* { ...updated[idx], ...dev }: the fields msg.device carries overwrite
Spread(old, dev) ==
    [old EXCEPT !.sensor_id = OrStr(dev.sensor_id, @),
                !.device_id = OrStr(dev.device_id, @),
                !.device_name = OrStr(dev.device_name, @)]

\* the setDevices updater of the device_status branch
ApplyDeviceStatus(prev, msg) ==
    LET idx == FindDevice(prev, msg.sensor_id) IN
    IF idx >= 1
    THEN [prev EXCEPT ![idx] = [Spread(prev[idx], msg.device) EXCEPT
                                    !.online = msg.online]]
    ELSE Append(prev,
            [Spread(Device(None, None, msg.online), msg.device) EXCEPT
                !.sensor_id = msg.sensor_id])

\* the registry the backend holds when the page is opened: d1 is known by its
\* sensor_id, d2 by its device_id
InitDevices == <<Device("d1", None, TRUE), Device(None, "d2", FALSE)>>

\* a getDevices() call: the response carries the registry the backend held when
\* it served the request
DevFetch(origin, registry) == [origin |-> origin, snap |-> registry]

\* ------------------------------------------------------------ pending requests
NoPending == [s \in {} |-> [command_id |-> None, started_at |-> 0]]

Remove(pending, sids) == [s \in (DOMAIN pending) \ sids |-> pending[s]]

\* an updater that clears by command_id only
ClearPendingByCommand(prev, msg) ==
    IF msg.command_id # None
    THEN Remove(prev, {s \in DOMAIN prev : prev[s].command_id = msg.command_id})
    ELSE prev

\* the setPendingConfig / setPendingHealth updater of a config / health message:
\* delete next[msg.sensor_id]; then, if msg.command_id, delete every entry with
\* that command_id
ClearPending(prev, msg) ==
    LET next == Remove(prev, {msg.sensor_id}) IN
    IF msg.command_id # None
    THEN Remove(next, {s \in DOMAIN next : /\ next[s].command_id # None
                                           /\ next[s].command_id = msg.command_id})
    ELSE next

\* the updater of the older page: delete next[msg.sensor_id] only
ClearPendingOld(prev, msg) == Remove(prev, {msg.sensor_id})

\* a cleanup that also deletes the entries that are exactly 30 s old
SweepAtLimit(prev, clock) ==
    Remove(prev, {s \in DOMAIN prev : /\ prev[s].started_at # 0
                                      /\ clock - prev[s].started_at >= TimeoutMs})

\* a cleanup that lets an entry live one sweep period longer
SweepLate(prev, clock) ==
    Remove(prev, {s \in DOMAIN prev : /\ prev[s].started_at # 0
                                      /\ clock - prev[s].started_at > TimeoutMs + SweepMs})

\* the updater of the 1 s cleanup: delete the entries older than 30 s
Sweep(prev, clock) ==
    Remove(prev, {s \in DOMAIN prev : /\ prev[s].started_at # 0
                                      /\ clock - prev[s].started_at > TimeoutMs})

\* setPendingConfig((prev) => ({ ...prev, [sid]: { command_id: prev?.[sid]?.command_id,
\*                                                started_at: Date.now() } }))
Begin(prev, sid, clock) ==
    [s \in (DOMAIN prev) \cup {sid} |->
        IF s = sid
        THEN [command_id |-> IF sid \in DOMAIN prev THEN prev[sid].command_id ELSE None,
              started_at |-> clock]
        ELSE prev[s]]

\* if (!prev[sid]) return prev; return { ...prev, [sid]: { ...prev[sid], command_id } }
LearnCommandId(prev, sid, cid) ==
    IF sid \notin DOMAIN prev THEN prev
    ELSE [prev EXCEPT ![sid].command_id = cid]

\* the older page: setPendingConfig((prev) => ({ ...prev, [sid]: { command_id, started_at } }))
SetPendingOld(prev, sid, cid, clock) ==
    [s \in (DOMAIN prev) \cup {sid} |->
        IF s = sid THEN [command_id |-> cid, started_at |-> clock] ELSE prev[s]]

NoEdit == [kind |-> "idle", key |-> None]
\* the last config / health event handled since the registry was last replaced:
\* what it set, and the pending entry it met ("absent", or the entry's
\* command_id) (a history record)
NoEvent == [kind |-> None, sensor_id |-> None, command_id |-> None,
            value |-> NoConfiguration, met |-> None]

\* the last message was handled without any effect
Dropped == [NoEvent EXCEPT !.kind = "dropped"]

Met(pending, sid) == IF sid \in DOMAIN pending THEN pending[sid].command_id ELSE "absent"

\* ------------------------------------------------------------ the backend
\* (an external collaborator: what GET /ota-history returns and how
\*  POST /send-command is accepted)
Command(cid, targets, status, ts) ==
    [command_id |-> cid, status |-> status, targets |-> targets,
     created_at |-> ts, last_update |-> ts, reason |-> None,
     ack |-> NoMsg, acks |-> <<>>, per_device |-> NoRows]

\* what the backend holds when the page is opened: c1 in progress for d1 and d2,
\* c2 finished, failed on its only target d2
InitHistory ==
    <<Command(CmdIds[1], <<"d1", "d2">>, "sent", 1),
      [Command(CmdIds[2], <<"d2">>, "failed", 1) EXCEPT
          !.reason = "error",
          !.per_device = [s \in {"d2"} |->
                            [status |-> "failed", reason |-> "error", ack |-> NoMsg]]]>>

RangeOf(seq) == {seq[i] : i \in 1..Len(seq)}

\* the backend accepts the posted command and assigns its correlation id
SrvAccept ==
    /\ sendTask.pc = "posted"
    /\ srvHistory' = Append(srvHistory,
            Command(CmdIds[Len(srvHistory) + 1], sendTask.body.targets.device_ids,
                    "pending", 1))
    /\ sendTask' = [sendTask EXCEPT !.pc = "accepted",
                                    !.command_id = CmdIds[Len(srvHistory) + 1]]
    /\ UNCHANGED devVars
    /\ UNCHANGED <<commands, sending, error, posts, dispatched, histFetch, lastAck>>

\* the backend fans the command out: pending -> sent
SrvSent(i) ==
    /\ srvHistory[i].status = "pending"
    /\ srvHistory' = [srvHistory EXCEPT ![i].status = "sent"]
    /\ UNCHANGED devVars
    /\ UNCHANGED <<commands, sending, error, sendTask, posts,
                   dispatched, histFetch, lastAck>>

\* the backend records a target's acknowledgment: sent -> acked | failed
SrvAck(i, sid, st) ==
    /\ srvHistory[i].status # "pending"
    /\ sid \in RangeOf(srvHistory[i].targets)
    /\ sid \notin DOMAIN srvHistory[i].per_device
    /\ srvHistory' = [srvHistory EXCEPT
            ![i].status = IF @ = "sent" THEN st ELSE @,
            ![i].last_update = MaxTs,
            ![i].per_device = [s \in (DOMAIN @) \cup {sid} |->
                IF s = sid
                THEN [status |-> st,
                      reason |-> IF st = "failed" THEN "error" ELSE None,
                      ack |-> NoMsg]
                ELSE @[s]]]
    /\ UNCHANGED devVars
    /\ UNCHANGED <<commands, sending, error, sendTask, posts,
                   dispatched, histFetch, lastAck>>

\* ------------------------------------------------------------ OTA page
\* JSON text typed by the operator: absent (empty field), not parseable, or a value
NoText == [kind |-> "absent", val |-> None]
BadText == [kind |-> "bad", val |-> None]
JsonText(v) == [kind |-> "json", val |-> v]

StepKeys == {"model_update", "config_update", "git_update", "shell_exec",
             "post_actions", "rollback"}
NoSteps == [k \in {} |-> None]
NoPayload == [command |-> None, targets |-> [device_ids |-> <<>>],
              steps |-> NoSteps, extra |-> None]
Idle == [pc |-> "idle", body |-> NoPayload, command_id |-> None]

\* the keys of the steps object onSend builds from the form
FormStepKeys(values) ==
    {k \in StepKeys :
        \/ k = "model_update" /\ (values.model_key # None \/ values.labels_key # None)
        \/ k = "config_update" /\ (values.config_key # None
                                    \/ values.nested_updates.kind # "absent")
        \/ k = "git_update" /\ values.git_enabled
        \/ k = "shell_exec" /\ values.shell_enabled
        \/ k = "post_actions" /\ (values.restart_service \/ values.reboot)
        \/ k = "rollback" /\ (values.rollback_config \/ values.rollback_model)}

\* let nested = {}; if (values.nested_updates) nested = JSON.parse(values.nested_updates)
Nested(values) ==
    IF values.nested_updates.kind = "json" THEN values.nested_updates.val ELSE "{}"

StepObject(k, values) ==
    CASE k = "model_update" ->
            [enabled |-> TRUE, model_hef_url |-> values.model_key,
             labels_json_url |-> values.labels_key]
      [] k = "config_update" ->
            [enabled |-> TRUE,
             mode |-> IF values.config_key # None THEN "s3" ELSE "nested",
             config_s3_url |-> values.config_key,
             nested_updates |-> Nested(values)]
      [] k = "git_update" ->
            [enabled |-> TRUE, branch |-> OrStr(values.git_branch, "main"),
             tag |-> values.git_tag]
      [] k = "shell_exec" ->
            [enabled |-> TRUE, script_name |-> values.shell_script]
      [] k = "post_actions" ->
            [restart_service |-> values.restart_service,
             service_name |-> values.service_name, reboot |-> values.reboot]
      [] k = "rollback" ->
            [config |-> values.rollback_config, model |-> values.rollback_model]

FormSteps(values) == [k \in FormStepKeys(values) |-> StepObject(k, values)]

\* { ...(payload.steps || {}), ...steps }
MergeSteps(override, steps) ==
    [k \in (DOMAIN override) \cup (DOMAIN steps) |->
        IF k \in DOMAIN steps THEN steps[k] ELSE override[k]]

\* a validation that lets an empty target list through
ValidateAnyTargets(values) ==
    IF values.payload.kind = "bad" THEN "bad_payload"
    ELSE IF "config_update" \in FormStepKeys(values)
            /\ values.nested_updates.kind = "bad" THEN "bad_nested"
    ELSE "ok"

\* onSend up to its first return: which check, if any, rejects the form
Validate(values) ==
    IF values.payload.kind = "bad" THEN "bad_payload"
    ELSE IF Len(values.targets) = 0 THEN "no_targets"
    ELSE IF "config_update" \in FormStepKeys(values)
            /\ values.nested_updates.kind = "bad" THEN "bad_nested"
    ELSE "ok"

\* a payload that keeps the targets typed inside the override
BuildPayloadVerbatim(values) ==
    IF values.payload.kind = "absent"
    THEN [command |-> "ota_update",
          targets |-> [device_ids |-> values.targets],
          steps |-> FormSteps(values),
          extra |-> None]
    ELSE LET payload == values.payload.val IN
         [command |-> IF payload.command # None THEN payload.command ELSE "ota_update",
          targets |-> payload.targets,
          steps |-> MergeSteps(payload.steps, FormSteps(values)),
          extra |-> payload.extra]

\* the payload onSend posts: built from the form, or the operator's override with
\* the selected targets and the merged steps written over it
BuildPayload(values) ==
    IF values.payload.kind = "absent"
    THEN [command |-> "ota_update",
          targets |-> [device_ids |-> values.targets],
          steps |-> FormSteps(values),
          extra |-> None]
    ELSE LET payload == values.payload.val IN
         [command |-> IF payload.command # None THEN payload.command ELSE "ota_update",
          targets |-> [device_ids |-> values.targets],
          steps |-> MergeSteps(payload.steps, FormSteps(values)),
          extra |-> payload.extra]

\* one request per selected target instead of one per dispatch
SendRequestsPerTarget(payload) == Len(payload.targets.device_ids)

\* await sendOta(payload): the requests one dispatch issues
SendRequests(payload) == 1

\* a getOtaHistory() call: the response carries the history the backend held
\* when it served the request; acked tells whether this page applied an ack to a
\* known command while the call was in flight (a history variable)
Fetch(origin) == [origin |-> origin, snap |-> srvHistory, acked |-> FALSE]

RECURSIVE LoggedAcks(_)
LoggedAcks(cmds) ==
    IF cmds = <<>> THEN 0 ELSE Len(Head(cmds).acks) + LoggedAcks(Tail(cmds))

\* the per-device rollup of the history list: one line per target,
\* {sid}: {pd.status || "unknown"}
Rollup(cmd) ==
    [sid \in RangeOf(cmd.targets) |->
        IF sid \in DOMAIN cmd.per_device THEN cmd.per_device[sid].status
        ELSE "unknown"]

\* ws.onmessage, msg.type === "ack"
OnAck(msg) ==
    LET idx == FindIndex(commands, msg.command_id) IN
    /\ idx >= 1 => LoggedAcks(commands) < MaxAcks
    /\ commands' = ApplyAck(commands, msg)
    /\ histFetch' = IF idx >= 1
                    THEN {[f EXCEPT !.acked = TRUE] : f \in histFetch}
                    ELSE histFetch
    /\ lastAck' = IF idx >= 1 /\ histFetch # {} THEN msg ELSE lastAck
    /\ UNCHANGED devVars
    /\ UNCHANGED <<sending, error, sendTask, posts, dispatched, srvHistory>>

\* setInterval(async () => { setCommands(await getOtaHistory()) }, 15000): the call
HistoryTick ==
    /\ Cardinality(histFetch) < MaxFetch
    /\ histFetch' = histFetch \cup {Fetch("timer")}
    /\ UNCHANGED devVars
    /\ UNCHANGED <<commands, sending, error, sendTask, posts,
                   dispatched, lastAck, srvHistory>>

\* lastAck once the call f is over: kept only while another call saw the ack
LastAckAfter(f) ==
    IF \E g \in histFetch \ {f} : g.acked THEN lastAck ELSE NoMsg

\* setCommands(history) of the initial load, setCommands(await getOtaHistory()) of
\* the periodic refresh and of onSend: the response replaces the collection
SetCommands(prev, snap) == snap

HistoryArrive(f) ==
    /\ f \in histFetch
    /\ commands' = SetCommands(commands, f.snap)
    /\ histFetch' = histFetch \ {f}
    /\ IF f.origin = "send"
       THEN sending' = FALSE /\ sendTask' = Idle
       ELSE UNCHANGED <<sending, sendTask>>
    /\ lastAck' = LastAckAfter(f)
    /\ UNCHANGED devVars
    /\ UNCHANGED <<error, posts, dispatched, srvHistory>>

\* the call fails: the periodic refresh ignores it, load and onSend setError
HistoryFail(f) ==
    /\ f \in histFetch
    /\ histFetch' = histFetch \ {f}
    /\ error' = IF f.origin = "timer" THEN error ELSE "err"
    /\ IF f.origin = "send"
       THEN sending' = FALSE /\ sendTask' = Idle
       ELSE UNCHANGED <<sending, sendTask>>
    /\ lastAck' = LastAckAfter(f)
    /\ UNCHANGED devVars
    /\ UNCHANGED <<commands, posts, dispatched, srvHistory>>

\* what the operator can submit
BaseValues ==
    [payload |-> NoText, targets |-> <<>>,
     model_key |-> None, labels_key |-> None,
     config_key |-> None, nested_updates |-> NoText,
     git_enabled |-> FALSE, git_branch |-> None, git_tag |-> None,
     shell_enabled |-> FALSE, shell_script |-> None,
     restart_service |-> FALSE, service_name |-> None, reboot |-> FALSE,
     rollback_config |-> FALSE, rollback_model |-> FALSE]

Overrides ==
    {[command |-> None, targets |-> [device_ids |-> <<>>], steps |-> NoSteps,
      extra |-> None],
     [command |-> "reboot", targets |-> [device_ids |-> <<"d3">>],
      steps |-> [k \in {"git_update"} |-> [enabled |-> TRUE, branch |-> "dev", tag |-> "v1"]],
      extra |-> "x"]}

Forms ==
    {BaseValues,
     [BaseValues EXCEPT !.model_key = "m.hef"],
     [BaseValues EXCEPT !.nested_updates = BadText],
     [BaseValues EXCEPT !.nested_updates = JsonText("n1"), !.git_enabled = TRUE],
     [BaseValues EXCEPT !.config_key = "c.json", !.shell_enabled = TRUE],
     [BaseValues EXCEPT !.reboot = TRUE, !.rollback_model = TRUE]}

Values ==
    {[f EXCEPT !.payload = p, !.targets = t] :
        f \in Forms,
        p \in {NoText, BadText} \cup {JsonText(o) : o \in Overrides},
        t \in {<<>>, <<"d1">>, <<"d1", "d2">>}}

\* onSend(values), up to `await sendOta(payload)`
OnSend(values) ==
    /\ ~sending
    /\ sendTask.pc = "idle"
    /\ error' = ""
    /\ IF Validate(values) = "ok"
       THEN /\ posts < MaxSends
            /\ sending' = TRUE
            /\ posts' = posts + SendRequests(BuildPayload(values))
            /\ dispatched' = dispatched + 1
            /\ sendTask' = [pc |-> "posted", body |-> BuildPayload(values),
                            command_id |-> None]
       ELSE UNCHANGED <<sending, posts, dispatched, sendTask>>
    /\ UNCHANGED devVars
    /\ UNCHANGED <<commands, histFetch, lastAck, srvHistory>>

\* sendOta resolved: message.success, then the call of getOtaHistory()
SendOtaOk ==
    /\ sendTask.pc = "accepted"
    /\ Cardinality(histFetch) < MaxFetch
    /\ sendTask' = [sendTask EXCEPT !.pc = "history", !.body = NoPayload]
    /\ histFetch' = histFetch \cup {Fetch("send")}
    /\ UNCHANGED devVars
    /\ UNCHANGED <<commands, sending, error, posts, dispatched, lastAck, srvHistory>>

\* sendOta rejected: catch (err) { setError(err.message) } finally { setSending(false) }
SendOtaFail ==
    /\ sendTask.pc \in {"posted", "accepted"}
    /\ error' = "err"
    /\ sending' = FALSE
    /\ sendTask' = Idle
    /\ UNCHANGED devVars
    /\ UNCHANGED <<commands, posts, dispatched, histFetch, lastAck, srvHistory>>

\* the OTA page as mounted: nothing loaded yet, the initial load in flight
InitOTAPage ==
    /\ commands = <<>>
    /\ sending = FALSE
    /\ sendTask = Idle
    /\ posts = 0
    /\ dispatched = 0
    /\ srvHistory = InitHistory
    /\ histFetch = {[origin |-> "load", snap |-> InitHistory, acked |-> FALSE]}
    /\ lastAck = NoMsg

\* the Devices page as mounted
InitDevicesPage ==
    /\ devices = <<>>
    /\ pendingConfig = NoPending
    /\ pendingHealth = NoPending
    /\ now = SweepMs
    /\ requests = {}
    /\ issued = 0
    /\ devFetch = {DevFetch("load", InitDevices)}
    /\ editTask = NoEdit
    /\ lastEvent = NoEvent
    /\ srvDevices = InitDevices

\* a page that is not mounted holds nothing and does nothing
NoOTAPage ==
    /\ commands = <<>>
    /\ sending = FALSE
    /\ sendTask = Idle
    /\ posts = 0
    /\ dispatched = 0
    /\ srvHistory = InitHistory
    /\ histFetch = {}
    /\ lastAck = NoMsg

NoDevicesPage ==
    /\ devices = <<>>
    /\ pendingConfig = NoPending
    /\ pendingHealth = NoPending
    /\ now = SweepMs
    /\ requests = {}
    /\ issued = 0
    /\ devFetch = {}
    /\ editTask = NoEdit
    /\ lastEvent = NoEvent
    /\ srvDevices = InitDevices

InitOTA == error = "" /\ InitOTAPage /\ NoDevicesPage

\* the page while the operator dispatches nothing: events, refreshes, the backend
NextOTA ==
    \/ \E msg \in AckMsgs : OnAck(msg)
    \/ HistoryTick
    \/ \E f \in histFetch : HistoryArrive(f)
    \/ \E f \in histFetch : HistoryFail(f)
    \/ \E i \in 1..Len(srvHistory), st \in {"acked", "failed"} :
          SrvAck(i, srvHistory[i].targets[1], st)

SpecOTA == InitOTA /\ [][NextOTA]_vars

\* the acks that follow a dispatch: the targets of the new command answer
DispatchAcks == {Ack(CmdIds[3], sid, MaxTs) : sid \in {"d1", "d2"}}

\* the page while the operator dispatches
NextSend ==
    \/ \E values \in Values : OnSend(values)
    \/ SrvAccept
    \/ SendOtaOk
    \/ SendOtaFail
    \/ \E i \in 1..Len(srvHistory) : SrvSent(i)
    \/ \E msg \in DispatchAcks : OnAck(msg)
    \/ HistoryTick
    \/ \E f \in histFetch : HistoryArrive(f)
    \/ \E f \in histFetch : HistoryFail(f)

SpecSend == InitOTA /\ [][NextSend]_vars

\* ------------------------------------------------------------ Devices page
\* marks the requests for (op, sid) in flight as answered by an event; a new
\* request for (op, sid) unmarks them (a history field)
Answered(reqs, op, sid, flag) ==
    {IF r.op = op /\ r.sid = sid THEN [r EXCEPT !.answered = flag] ELSE r : r \in reqs}

\* a config branch that clears the device's entries of both operation kinds
OnConfigBothKinds(msg) ==
    /\ msg.type = "config"
    /\ IF msg.sensor_id # None
       THEN /\ devices' = SetLatestConfiguration(devices, msg, now)
            /\ pendingConfig' = ClearPending(pendingConfig, msg)
            /\ pendingHealth' = ClearPending(pendingHealth, msg)
            /\ requests' = Answered(requests, "get_configuration", msg.sensor_id, TRUE)
            /\ lastEvent' = [kind |-> "config", sensor_id |-> msg.sensor_id,
                              command_id |-> msg.command_id,
                              value |-> NextLatestConfiguration(msg, now),
                              met |-> Met(pendingConfig, msg.sensor_id)]
       ELSE /\ lastEvent' = Dropped
            /\ UNCHANGED <<devices, pendingConfig, pendingHealth, requests>>
    /\ UNCHANGED <<now, issued, devFetch, editTask, srvDevices>>
    /\ UNCHANGED <<otaVars, error>>

\* ws.onmessage, msg.type === "config" && msg.sensor_id
OnConfig(msg) ==
    /\ msg.type = "config"
    /\ IF msg.sensor_id # None
       THEN /\ devices' = SetLatestConfiguration(devices, msg, now)
            /\ pendingConfig' = ClearPending(pendingConfig, msg)
            /\ requests' = Answered(requests, "get_configuration", msg.sensor_id, TRUE)
            /\ lastEvent' = [kind |-> "config", sensor_id |-> msg.sensor_id,
                              command_id |-> msg.command_id,
                              value |-> NextLatestConfiguration(msg, now),
                              met |-> Met(pendingConfig, msg.sensor_id)]
       ELSE /\ lastEvent' = Dropped
            /\ UNCHANGED <<devices, pendingConfig, requests>>
    /\ UNCHANGED <<pendingHealth, now, issued, devFetch, editTask, srvDevices>>
    /\ UNCHANGED <<otaVars, error>>

\* ws.onmessage, msg.type === "health" && msg.sensor_id
OnHealth(msg) ==
    /\ msg.type = "health"
    /\ IF msg.sensor_id # None
       THEN /\ devices' = SetLatestHealth(devices, msg, now)
            /\ pendingHealth' = ClearPending(pendingHealth, msg)
            /\ requests' = Answered(requests, "health_check", msg.sensor_id, TRUE)
            /\ lastEvent' = [kind |-> "health", sensor_id |-> msg.sensor_id,
                              command_id |-> msg.command_id,
                              value |-> NextLatestHealth(msg, now),
                              met |-> Met(pendingHealth, msg.sensor_id)]
       ELSE /\ lastEvent' = Dropped
            /\ UNCHANGED <<devices, pendingHealth, requests>>
    /\ UNCHANGED <<pendingConfig, now, issued, devFetch, editTask, srvDevices>>
    /\ UNCHANGED <<otaVars, error>>

\* ws.onmessage, msg.type === "device_status" && msg.sensor_id
OnDeviceStatus(msg) ==
    /\ msg.type = "device_status"
    /\ IF msg.sensor_id # None
       THEN devices' = ApplyDeviceStatus(devices, msg) /\ UNCHANGED lastEvent
       ELSE lastEvent' = Dropped /\ UNCHANGED devices
    /\ UNCHANGED <<pendingConfig, pendingHealth, now, requests, issued, devFetch,
                   editTask, srvDevices>>
    /\ UNCHANGED <<otaVars, error>>

\* a handler that reports a message it has no branch for
OnOtherSurfaced(msg) ==
    /\ msg.type \notin {"config", "health", "device_status"}
    /\ lastEvent' = Dropped
    /\ error' = "err"
    /\ UNCHANGED <<devices, pendingConfig, pendingHealth, now, requests, issued,
                   devFetch, editTask, srvDevices>>
    /\ UNCHANGED otaVars

\* ws.onmessage, any other message: none of the three branches is taken
OnOther(msg) ==
    /\ msg.type \notin {"config", "health", "device_status"}
    /\ lastEvent' = Dropped
    /\ UNCHANGED <<devices, pendingConfig, pendingHealth, now, requests, issued,
                   devFetch, editTask, srvDevices>>
    /\ UNCHANGED <<otaVars, error>>

\* ws.onmessage, evt.data is no JSON text: JSON.parse throws, catch (e) { }
OnUnparseable ==
    /\ lastEvent' = Dropped
    /\ UNCHANGED <<devices, pendingConfig, pendingHealth, now, requests, issued,
                   devFetch, editTask, srvDevices>>
    /\ UNCHANGED <<otaVars, error>>

\* onGetConfig(record), up to `await sendOta(...)`
OnGetConfig(record) ==
    LET sid == KeyOf(record) IN
    /\ IF sid # None
       THEN /\ pendingConfig' = Begin(pendingConfig, sid, now)
            /\ requests' = Answered(requests, "get_configuration", sid, FALSE) \cup
                  {[op |-> "get_configuration", sid |-> sid, n |-> issued + 1,
                    answered |-> FALSE]}
            /\ issued' = issued + 1
       ELSE UNCHANGED <<pendingConfig, requests, issued>>
    /\ UNCHANGED <<devices, pendingHealth, now, devFetch, editTask, lastEvent, srvDevices>>
    /\ UNCHANGED <<otaVars, error>>

\* onHealthCheck(record), up to `await sendOta(...)`
OnHealthCheck(record) ==
    LET sid == KeyOf(record) IN
    /\ IF sid # None
       THEN /\ pendingHealth' = Begin(pendingHealth, sid, now)
            /\ requests' = Answered(requests, "health_check", sid, FALSE) \cup
                  {[op |-> "health_check", sid |-> sid, n |-> issued + 1,
                    answered |-> FALSE]}
            /\ issued' = issued + 1
       ELSE UNCHANGED <<pendingHealth, requests, issued>>
    /\ UNCHANGED <<devices, pendingConfig, now, devFetch, editTask, lastEvent, srvDevices>>
    /\ UNCHANGED <<otaVars, error>>

\* sendOta resolved with res: if (res?.command_id) setPending...(learn the id)
Resolved(r, withId) ==
    /\ r \in requests
    /\ requests' = requests \ {r}
    /\ IF r.op = "get_configuration"
       THEN /\ pendingConfig' = IF withId
                                THEN LearnCommandId(pendingConfig, r.sid, GetIds[r.n])
                                ELSE pendingConfig
            /\ UNCHANGED pendingHealth
       ELSE /\ pendingHealth' = IF withId
                                THEN LearnCommandId(pendingHealth, r.sid, GetIds[r.n])
                                ELSE pendingHealth
            /\ UNCHANGED pendingConfig
    /\ UNCHANGED <<devices, now, issued, devFetch, editTask, lastEvent, srvDevices>>
    /\ UNCHANGED <<otaVars, error>>

\* a catch that takes back the entry the request had begun
RejectedRollback(r) ==
    /\ r \in requests
    /\ requests' = requests \ {r}
    /\ error' = "err"
    /\ IF r.op = "get_configuration"
       THEN pendingConfig' = Remove(pendingConfig, {r.sid}) /\ UNCHANGED pendingHealth
       ELSE pendingHealth' = Remove(pendingHealth, {r.sid}) /\ UNCHANGED pendingConfig
    /\ UNCHANGED <<devices, now, issued, devFetch, editTask, lastEvent, srvDevices>>
    /\ UNCHANGED otaVars

\* sendOta rejected: catch (err) { setError(err.message) }
Rejected(r) ==
    /\ r \in requests
    /\ requests' = requests \ {r}
    /\ error' = "err"
    /\ UNCHANGED <<devices, pendingConfig, pendingHealth, now, issued, devFetch,
                   editTask, lastEvent, srvDevices>>
    /\ UNCHANGED otaVars

\* the clock advances; on every full second the timeout cleanup runs
Tick ==
    /\ now' = now + StepMs
    /\ IF now' % SweepMs = 0
       THEN /\ pendingConfig' = Sweep(pendingConfig, now')
            /\ pendingHealth' = Sweep(pendingHealth, now')
       ELSE UNCHANGED <<pendingConfig, pendingHealth>>
    /\ UNCHANGED <<devices, requests, issued, devFetch, editTask, lastEvent, srvDevices>>
    /\ UNCHANGED <<otaVars, error>>

\* setInterval(async () => { setDevices(await getDevices()) }, 10000): the call
DevicesTick ==
    /\ Cardinality(devFetch) < MaxDevFetch
    /\ devFetch' = devFetch \cup {DevFetch("timer", srvDevices)}
    /\ UNCHANGED <<devices, pendingConfig, pendingHealth, now, requests, issued,
                   editTask, lastEvent, srvDevices>>
    /\ UNCHANGED <<otaVars, error>>

\* setDevices(await getDevices()): the response replaces the registry
SetDevices(prev, snap) == snap

DevicesArrive(f) ==
    /\ f \in devFetch
    /\ devices' = SetDevices(devices, f.snap)
    /\ devFetch' = devFetch \ {f}
    /\ lastEvent' = NoEvent
    /\ editTask' = IF f.origin = "edit" THEN NoEdit ELSE editTask
    /\ UNCHANGED <<pendingConfig, pendingHealth, now, requests, issued, srvDevices>>
    /\ UNCHANGED <<otaVars, error>>

\* the call fails: the periodic refresh ignores it, the others setError
DevicesFail(f) ==
    /\ f \in devFetch
    /\ devFetch' = devFetch \ {f}
    /\ error' = IF f.origin = "timer" THEN error ELSE "err"
    /\ editTask' = IF f.origin = "edit" THEN NoEdit ELSE editTask
    /\ UNCHANGED <<devices, pendingConfig, pendingHealth, now, requests, issued,
                   lastEvent, srvDevices>>
    /\ UNCHANGED otaVars

\* onDelete(record), up to `await deleteDevice(...)`
OnDelete(record) ==
    /\ editTask.kind = "idle"
    /\ editTask' = [kind |-> "delete", key |-> KeyOf(record)]
    /\ UNCHANGED <<devices, pendingConfig, pendingHealth, now, requests, issued,
                   devFetch, lastEvent, srvDevices>>
    /\ UNCHANGED <<otaVars, error>>

\* the backend has deleted the device
SrvEdited(registry, task) == SelectSeq(registry, LAMBDA d : KeyOf(d) # task.key)

\* deleteDevice resolved: message.success, then the call of getDevices()
EditOk ==
    /\ editTask.kind = "delete"
    /\ Cardinality(devFetch) < MaxDevFetch
    /\ srvDevices' = SrvEdited(srvDevices, editTask)
    /\ devFetch' = devFetch \cup {DevFetch("edit", srvDevices')}
    /\ editTask' = [kind |-> "refetch", key |-> editTask.key]
    /\ UNCHANGED <<devices, pendingConfig, pendingHealth, now, requests, issued, lastEvent>>
    /\ UNCHANGED <<otaVars, error>>

\* deleteDevice rejected: setError(err.message)
EditFail ==
    /\ editTask.kind = "delete"
    /\ editTask' = NoEdit
    /\ error' = "err"
    /\ UNCHANGED <<devices, pendingConfig, pendingHealth, now, requests, issued,
                   devFetch, lastEvent, srvDevices>>
    /\ UNCHANGED otaVars

\* the backend persists the configuration / health a device reported at `stamp`
SrvStoreConfiguration(i, stamp) ==
    /\ srvDevices[i].latest_configuration.received_at < stamp
    /\ srvDevices' = [srvDevices EXCEPT ![i].latest_configuration =
            [command_id |-> None, status |-> "success", received_at |-> stamp,
             device_time |-> stamp, config |-> "cfg", error |-> None]]
    /\ UNCHANGED <<devices, pendingConfig, pendingHealth, now, requests, issued,
                   devFetch, editTask, lastEvent>>
    /\ UNCHANGED <<otaVars, error>>

\* ------------------------------------------------------------ Devices page: runs
NoDev == [sensor_id |-> None, device_id |-> None, device_name |-> None]

Msg(type, sid, cid, ts, payload) ==
    [type |-> type, sensor_id |-> sid, command_id |-> cid, timestamp |-> ts,
     payload |-> payload, online |-> FALSE, device |-> NoDev]

DeviceStatus(sid, online, dev) ==
    [type |-> "device_status", sensor_id |-> sid, command_id |-> None,
     timestamp |-> NoTs, payload |-> NoBody, online |-> online, device |-> dev]

OkBody == [status |-> "success", time |-> StepMs, config |-> "cfg", error |-> None,
           command_id |-> None]

\* the server-observed receipt time the events of a run carry, when they carry one
Newest == MaxTs * StepMs

\* the events of a run that exercises the registry: d1 (known by sensor_id)
\* reports configuration and health, d2 (known by device_id) a configuration and
\* its status, d3 is not registered
RegistryMsgs ==
    {Msg("config", "d1", None, NoTs, OkBody),
     Msg("config", "d1", None, Newest, OkBody),
     Msg("config", "d2", None, Newest, OkBody),
     Msg("config", "d3", None, Newest, OkBody),
     Msg("config", None, None, Newest, OkBody),
     Msg("health", "d1", None, Newest, OkBody),
     Msg("health", None, None, Newest, OkBody),
     Msg("register", "d1", None, NoTs, NoBody),
     DeviceStatus("d2", TRUE, NoDev),
     DeviceStatus("d2", FALSE, NoDev),
     DeviceStatus("d3", TRUE, NoDev),
     DeviceStatus("d3", FALSE, NoDev),
     DeviceStatus(None, TRUE, NoDev),
     DeviceStatus("d2", TRUE, [NoDev EXCEPT !.sensor_id = "d1"])}

InitDevs == error = "" /\ NoOTAPage /\ InitDevicesPage

\* the Devices page: events and registry refreshes
NextDevices ==
    \/ \E msg \in RegistryMsgs : OnConfig(msg)
    \/ \E msg \in RegistryMsgs : OnHealth(msg)
    \/ \E msg \in RegistryMsgs : (Len(devices) < MaxDevices /\ OnDeviceStatus(msg))
    \/ \E msg \in RegistryMsgs : OnOther(msg)
    \/ DevicesTick
    \/ \E f \in devFetch : DevicesArrive(f)
    \/ \E f \in devFetch : DevicesFail(f)
    \/ SrvStoreConfiguration(1, StepMs)
    \/ (now < SweepMs + MaxTicks * StepMs /\ Tick)

SpecDevices == InitDevs /\ [][NextDevices]_vars

\* the Devices page while the operator deletes devices
NextRemove ==
    \/ \E i \in 1..Len(devices) : OnDelete(devices[i])
    \/ EditOk
    \/ EditFail
    \/ DevicesTick
    \/ \E f \in devFetch : DevicesArrive(f)
    \/ \E f \in devFetch : DevicesFail(f)
    \/ \E msg \in RegistryMsgs : (Len(devices) < MaxDevices /\ OnDeviceStatus(msg))

SpecRemove == InitDevs /\ [][NextRemove]_vars

\* ------------------------------------------------- Devices page: pending requests
\* Cap on the number of get_configuration / health_check requests of a run.
MaxRequests == 2

\* loading={!!pendingConfig[sid] || !!pendingHealth[sid]} of the "Get Config" button
Busy(sid) == sid \in DOMAIN pendingConfig \/ sid \in DOMAIN pendingHealth

\* the config / health events of a run that exercises the tracker: with and
\* without a command_id, for a registered device, for another one, for none
PendingMsgs ==
    {Msg("config", "d1", cid, Newest, OkBody) : cid \in {None, GetIds[1], GetIds[2]}}
    \cup {Msg("health", "d1", cid, Newest, OkBody) : cid \in {None, GetIds[1]}}
    \cup {Msg("config", "d2", GetIds[1], Newest, OkBody),
          Msg("config", None, GetIds[1], Newest, OkBody),
          Msg("health", None, GetIds[1], Newest, OkBody)}

\* the Devices page while the operator asks devices for configuration and health
NextPending ==
    \/ \E f \in devFetch : DevicesArrive(f)
    \/ \E i \in 1..Len(devices) : (issued < MaxRequests /\ OnGetConfig(devices[i]))
    \/ \E i \in 1..Len(devices) : (issued < MaxRequests /\ OnHealthCheck(devices[i]))
    \/ \E r \in requests, withId \in BOOLEAN : Resolved(r, withId)
    \/ \E r \in requests : Rejected(r)
    \/ \E msg \in PendingMsgs : OnConfig(msg)
    \/ \E msg \in PendingMsgs : OnHealth(msg)

SpecPending == InitDevs /\ [][NextPending]_vars

\* Number of clock steps of a run that watches the timeout cleanup.
SweepTicks == 66
\* Requests are begun during the first steps of such a run.
BeginTicks == 2

\* the config events of such a run: d1 reports without a command_id, d2 reports
\* under the command_id of the first request
SweepMsgs ==
    {Msg("config", "d1", None, Newest, OkBody),
     Msg("config", "d2", GetIds[1], Newest, OkBody)}

\* the Devices page while requests stay unanswered and the clock runs
NextSweep ==
    \/ \E f \in devFetch : DevicesArrive(f)
    \/ \E i \in 1..Len(devices) :
          /\ issued < MaxRequests
          /\ now <= SweepMs + BeginTicks * StepMs
          /\ OnGetConfig(devices[i])
    \/ \E i \in 1..Len(devices) :
          /\ issued < MaxRequests
          /\ now <= SweepMs + BeginTicks * StepMs
          /\ OnHealthCheck(devices[i])
    \/ \E r \in requests : Resolved(r, TRUE)
    \/ \E r \in requests : Rejected(r)
    \/ \E msg \in SweepMsgs : OnConfig(msg)
    \/ (now < SweepMs + SweepTicks * StepMs /\ Tick)

SpecSweep == InitDevs /\ [][NextSweep]_vars

\* ------------------------------------------------- the older Devices page
\* ws.onmessage, msg.type === "config" && msg.sensor_id
OnConfigOld(msg) ==
    /\ msg.type = "config"
    /\ IF msg.sensor_id # None
       THEN /\ devices' = SetLatestConfiguration(devices, msg, now)
            /\ pendingConfig' = ClearPendingOld(pendingConfig, msg)
            /\ requests' = Answered(requests, "get_configuration", msg.sensor_id, TRUE)
            /\ lastEvent' = [kind |-> "config", sensor_id |-> msg.sensor_id,
                              command_id |-> msg.command_id,
                              value |-> NextLatestConfiguration(msg, now),
                              met |-> Met(pendingConfig, msg.sensor_id)]
       ELSE /\ lastEvent' = Dropped
            /\ UNCHANGED <<devices, pendingConfig, requests>>
    /\ UNCHANGED <<pendingHealth, now, issued, devFetch, editTask, srvDevices>>
    /\ UNCHANGED <<otaVars, error>>

\* onGetConfig(record), up to `await sendOta(...)`: nothing is recorded yet
OnGetConfigOld(record) ==
    LET sid == KeyOf(record) IN
    /\ IF sid # None
       THEN /\ requests' = Answered(requests, "get_configuration", sid, FALSE) \cup
                  {[op |-> "get_configuration", sid |-> sid, n |-> issued + 1,
                    answered |-> FALSE]}
            /\ issued' = issued + 1
       ELSE UNCHANGED <<requests, issued>>
    /\ UNCHANGED <<devices, pendingConfig, pendingHealth, now, devFetch, editTask,
                   lastEvent, srvDevices>>
    /\ UNCHANGED <<otaVars, error>>

\* sendOta resolved with res: if (res?.command_id) setPendingConfig(record the entry)
ResolvedOld(r, withId) ==
    /\ r \in requests
    /\ requests' = requests \ {r}
    /\ pendingConfig' = IF withId
                        THEN SetPendingOld(pendingConfig, r.sid, GetIds[r.n], now)
                        ELSE pendingConfig
    /\ UNCHANGED <<devices, pendingHealth, now, issued, devFetch, editTask, lastEvent,
                   srvDevices>>
    /\ UNCHANGED <<otaVars, error>>

\* sendOta rejected: catch (err) { setError(err.message) }
RejectedOld(r) ==
    /\ r \in requests
    /\ requests' = requests \ {r}
    /\ error' = "err"
    /\ UNCHANGED <<devices, pendingConfig, pendingHealth, now, issued, devFetch,
                   editTask, lastEvent, srvDevices>>
    /\ UNCHANGED otaVars

\* the clock advances; on every full second the timeout cleanup runs
TickOld ==
    /\ now' = now + StepMs
    /\ pendingConfig' = IF now' % SweepMs = 0 THEN Sweep(pendingConfig, now')
                        ELSE pendingConfig
    /\ UNCHANGED <<devices, pendingHealth, requests, issued, devFetch, editTask,
                   lastEvent, srvDevices>>
    /\ UNCHANGED <<otaVars, error>>

NextDevicesOld ==
    \/ \E f \in devFetch : DevicesArrive(f)
    \/ \E i \in 1..Len(devices) : (issued < MaxRequests /\ OnGetConfigOld(devices[i]))
    \/ \E r \in requests, withId \in BOOLEAN : ResolvedOld(r, withId)
    \/ \E r \in requests : RejectedOld(r)
    \/ \E msg \in PendingMsgs : OnConfigOld(msg)
    \/ (now < SweepMs + MaxTicks * StepMs /\ TickOld)

SpecDevicesOld == InitDevs /\ [][NextDevicesOld]_vars

\* ------------------------------------------------- both pages: messages dropped
\* OTA ws.onmessage, msg.type !== "ack": the branch is not taken
OnOtherOTA(msg) ==
    /\ msg.type # "ack"
    /\ lastEvent' = Dropped
    /\ UNCHANGED <<devices, pendingConfig, pendingHealth, now, requests, issued,
                   devFetch, editTask, srvDevices>>
    /\ UNCHANGED <<otaVars, error>>

\* OTA ws.onmessage, evt.data is no JSON text: JSON.parse throws, catch (e) { }
OnUnparseableOTA ==
    /\ lastEvent' = Dropped
    /\ UNCHANGED <<devices, pendingConfig, pendingHealth, now, requests, issued,
                   devFetch, editTask, srvDevices>>
    /\ UNCHANGED <<otaVars, error>>

\* messages the Devices page has no use for: of a kind it does not know, or
\* without the sensor_id its branches ask for
DroppedMsgs ==
    {Msg("register", "d1", None, NoTs, NoBody),
     Msg("ack", "d1", GetIds[1], Newest, OkBody),
     Msg("config", None, GetIds[1], Newest, OkBody),
     Msg("health", None, GetIds[1], Newest, OkBody),
     DeviceStatus(None, TRUE, [NoDev EXCEPT !.sensor_id = "d1"])}

\* messages the Devices page applies
AppliedMsgs ==
    {Msg("config", "d1", None, Newest, OkBody),
     Msg("health", "d1", None, Newest, OkBody),
     DeviceStatus("d2", TRUE, NoDev)}

\* messages the OTA page has no use for: not an ack
DroppedOtaMsgs ==
    {[Ack(CmdIds[1], "d1", 1) EXCEPT !.type = t] :
        t \in {"config", "health", "device_status", "register"}}

\* acks the OTA page handles: for a command it holds, for one it does not
AppliedOtaMsgs == {Ack(CmdIds[1], "d1", MaxTs), Ack(UnknownCmd, "d1", MaxTs)}

\* both pages open, each on its own socket
InitEvents == error = "" /\ InitOTAPage /\ InitDevicesPage

NextEvents ==
    \/ \E f \in devFetch : DevicesArrive(f)
    \/ \E f \in histFetch : HistoryArrive(f)
    \/ \E i \in 1..Len(devices) : (issued < MaxRequests /\ OnGetConfig(devices[i]))
    \/ \E msg \in DroppedMsgs \cup AppliedMsgs : OnConfig(msg)
    \/ \E msg \in DroppedMsgs \cup AppliedMsgs : OnHealth(msg)
    \/ \E msg \in DroppedMsgs \cup AppliedMsgs : OnDeviceStatus(msg)
    \/ \E msg \in DroppedMsgs \cup AppliedMsgs : OnOther(msg)
    \/ OnUnparseable
    \/ \E msg \in AppliedOtaMsgs : OnAck(msg)
    \/ \E msg \in DroppedOtaMsgs : OnOtherOTA(msg)
    \/ OnUnparseableOTA

SpecEvents == InitEvents /\ [][NextEvents]_vars

\* ================================================================ claims
\* ------------------------------------------------- OTA page (SpecOTA)

\* the command named by msg holds msg: in its acks log, in the sender's row,
\* and its last_update is the one msg set
Carries(cmds, msg) ==
    LET idx == FindIndex(cmds, msg.command_id) IN
    /\ idx >= 1
    /\ \E k \in 1..Len(cmds[idx].acks) : cmds[idx].acks[k] = msg
    /\ msg.sensor_id # None =>
          /\ msg.sensor_id \in DOMAIN cmds[idx].per_device
          /\ cmds[idx].per_device[msg.sensor_id].ack = msg
    /\ msg.timestamp # NoTs => cmds[idx].last_update = msg.timestamp

\* C2: an ack applied to a known command after a getOtaHistory() call has started
\* and before its result is applied is still carried by the command (acks log,
\* the sender's per_device row, last_update) once the result is applied.
C2_AckSurvivesRefresh ==
    [][\A f \in histFetch :
          (HistoryArrive(f) /\ f.acked) => Carries(commands', lastAck)]_vars

\* C3: applying the identical ack twice in a row leaves Command History (acks
\* log, latest ack, per_device, last_update) as applying it once does.
C3_AckIdempotent ==
    \A msg \in AckMsgs :
        ApplyAck(ApplyAck(commands, msg), msg) = ApplyAck(commands, msg)

\* C4: every key of a command's per_device map is one of its declared targets.
C4_RowsWithinTargets ==
    \A i \in 1..Len(commands) :
        DOMAIN commands[i].per_device \subseteq RangeOf(commands[i].targets)

\* C5: no ack, whatever its timestamp, lowers a command's last_update.
C5_LastUpdateMonotone ==
    [][\A msg \in AckMsgs :
          OnAck(msg) =>
             \A i \in 1..Len(commands) :
                commands'[i].last_update >= commands[i].last_update]_vars

\* C9: an ack from device A changes only A's row of the command it names: the
\* rows of the other devices are unchanged, no row appears for a target that has
\* not acked (it still reads unknown in the rollup), and A's row holds A's ack.
C9_AckTouchesOwnRow ==
    \A msg \in AckMsgs :
        LET next == ApplyAck(commands, msg) IN
        /\ Len(next) = Len(commands)
        /\ \A i \in 1..Len(commands) :
              LET old == commands[i].per_device
                  new == next[i].per_device IN
              /\ DOMAIN old \subseteq DOMAIN new
              /\ DOMAIN new \subseteq (DOMAIN old) \cup {msg.sensor_id}
              /\ \A s \in DOMAIN old : s # msg.sensor_id => new[s] = old[s]
              /\ \A s \in RangeOf(commands[i].targets) :
                    s # msg.sensor_id => Rollup(next[i])[s] = Rollup(commands[i])[s]
              /\ (i = FindIndex(commands, msg.command_id) /\ msg.sensor_id # None)
                    => /\ new[msg.sensor_id].status = "acked"
                       /\ new[msg.sensor_id].ack = msg

\* d1 has acked c1 with status success and d2 with status failed: both rows are
\* there, each with its own device's ack
C9_BothRowsKept ==
    \E i \in 1..Len(commands) :
        /\ commands[i].command_id = CmdIds[1]
        /\ {"d1", "d2"} \subseteq DOMAIN commands[i].per_device
        /\ commands[i].per_device["d1"].ack.sensor_id = "d1"
        /\ commands[i].per_device["d1"].ack.payload.status = "success"
        /\ commands[i].per_device["d2"].ack.sensor_id = "d2"
        /\ commands[i].per_device["d2"].ack.payload.status = "failed"

\* ------------------------------------------------- OTA page (SpecSend)

\* C10: every dispatch that passes validation issues exactly one
\* POST /send-command, whatever the number of targets, and none is issued again
\* after a failure.
C10_OnePostPerDispatch == posts = dispatched

\* a dispatch to two targets has failed: its single request is not repeated
C10_TwoTargetsFailed ==
    /\ posts = 1
    /\ dispatched = 1
    /\ sendTask.pc = "idle"
    /\ error = "err"
    /\ Len(srvHistory) = 3
    /\ Len(srvHistory[3].targets) = 2

\* ------------------------------------------------- Devices page (SpecDevices)
\* the registry holds the value the event `ev` set
HoldsEvent(devs, ev) ==
    \E i \in 1..Len(devs) :
        /\ KeyOf(devs[i]) = ev.sensor_id
        /\ IF ev.kind = "config" THEN devs[i].latest_configuration = ev.value
           ELSE devs[i].latest_health = ev.value

\* the snapshot has an entry for the device of `ev`, and what it carries for that
\* device is older than what the event set, or nothing
OlderSnapshot(snap, ev) ==
    /\ \E i \in 1..Len(snap) : KeyOf(snap[i]) = ev.sensor_id
    /\ \A i \in 1..Len(snap) : KeyOf(snap[i]) = ev.sensor_id =>
          IF ev.kind = "config"
          THEN snap[i].latest_configuration.received_at < ev.value.received_at
          ELSE snap[i].latest_health.received_at < ev.value.received_at

\* C1: when a config / health event has set a device's latest_configuration /
\* latest_health with received_at = t and a registry snapshot whose entry for that
\* device is older (or carries none) is applied afterwards, the registry still
\* holds the event's value.
C1_EventSurvivesSnapshot ==
    [][\A f \in devFetch :
          (/\ DevicesArrive(f)
           /\ lastEvent.kind \in {"config", "health"}
           /\ HoldsEvent(devices, lastEvent)
           /\ OlderSnapshot(f.snap, lastEvent))
          => HoldsEvent(devices', lastEvent)]_vars

\* ------------------------------------------------- Devices page (SpecPending)
\* C6: right after a config (health) event with sensor_id d is handled, the
\* tracker holds no pending get_configuration (health_check) entry for d, whatever
\* command_id the entry had and whether or not the event carries one.
C6_EventClearsPending ==
    [][\A msg \in PendingMsgs :
          /\ (OnConfig(msg) /\ msg.sensor_id # None)
                => msg.sensor_id \notin DOMAIN pendingConfig'
          /\ (OnHealth(msg) /\ msg.sensor_id # None)
                => msg.sensor_id \notin DOMAIN pendingHealth']_vars

\* C6, its case: the last config event carried one command_id and met an entry
\* for its device that had learned another; the entry is gone.
C6_OtherCommandCleared ==
    /\ lastEvent.kind = "config"
    /\ lastEvent.met \in {GetIds[1], GetIds[2]}
    /\ lastEvent.command_id \in {GetIds[1], GetIds[2]}
    /\ lastEvent.met # lastEvent.command_id
    /\ lastEvent.sensor_id \notin DOMAIN pendingConfig

\* ------------------------------------------------- older Devices page (SpecDevicesOld)
\* C7: when the config event for d was handled while the get_configuration
\* request for d was still awaiting its response, handling the response (which
\* carries a command_id) leaves no pending entry for d.
C7_ResponseAfterEvent ==
    [][\A r \in requests :
          (ResolvedOld(r, TRUE) /\ r.answered)
          => r.sid \notin DOMAIN pendingConfig']_vars

\* ------------------------------------------------- Devices page (SpecSweep)
\* C8: a pending entry created at t is absent no later than t + 31 s (the 30 s
\* limit plus one 1 s sweep period), so a busy indicator is never driven by an
\* entry of that age.
C8_PendingExpires ==
    /\ \A s \in DOMAIN pendingConfig :
          now - pendingConfig[s].started_at < TimeoutMs + SweepMs
    /\ \A s \in DOMAIN pendingHealth :
          now - pendingHealth[s].started_at < TimeoutMs + SweepMs
    /\ \A s \in Sensors :
          Busy(s) => \/ /\ s \in DOMAIN pendingConfig
                        /\ now - pendingConfig[s].started_at < TimeoutMs + SweepMs
                     \/ /\ s \in DOMAIN pendingHealth
                        /\ now - pendingHealth[s].started_at < TimeoutMs + SweepMs

\* C8, its case: requests were begun, no event was handled, 31 s have passed
\* since the last moment a request could begin, and nothing is pending.
C8_ExpiredUnanswered ==
    /\ issued >= 1
    /\ lastEvent = NoEvent
    /\ now >= SweepMs + BeginTicks * StepMs + TimeoutMs + SweepMs
    /\ \A s \in Sensors : ~Busy(s)

\* ------------------------------------------------- OTA page, dispatch (SpecSend)
\* the form cannot be dispatched: no target, or text that is not JSON
Invalid(values) ==
    \/ values.payload.kind = "bad"
    \/ Len(values.targets) = 0
    \/ values.nested_updates.kind = "bad"

\* C11: a dispatch that fails validation (no target, payload or nested-updates text
\* that is not JSON) posts nothing, leaves Command History as it is, starts no
\* history fetch and leaves no dispatch running that could post later.
C11_InvalidPostsNothing ==
    [][\A values \in Values :
          (OnSend(values) /\ Invalid(values))
          => /\ posts' = posts
             /\ dispatched' = dispatched
             /\ commands' = commands
             /\ histFetch' = histFetch
             /\ srvHistory' = srvHistory
             /\ sendTask' = Idle
             /\ ~sending']_vars

\* C11, its case: the one dispatch of the run was posted and rejected (the
\* backend never stored it, the error was shown); only a later submission that
\* failed validation can have cleared the error, and still one request was posted.
C11_RejectedAfterFailure ==
    /\ posts = 1
    /\ Len(srvHistory) = Len(InitHistory)
    /\ sendTask = Idle
    /\ error = ""
    /\ ~sending

\* C12: the body of every posted request carries the operator-selected targets,
\* with or without an override payload, whatever targets the override holds.
C12_TargetsAreSelected ==
    [][\A values \in Values :
          (OnSend(values) /\ ~Invalid(values))
          => /\ sendTask'.pc = "posted"
             /\ sendTask'.body.targets.device_ids = values.targets]_vars

\* C12, its case: a request built from the override that names d3 as target is
\* in flight, and it carries the two selected targets.
C12_OverrideTargetsDropped ==
    /\ sendTask.pc = "posted"
    /\ sendTask.body.extra = "x"
    /\ sendTask.body.targets.device_ids = <<"d1", "d2">>

\* C13: with an override payload, the posted command is the override's command
\* (ota_update if it declares none), and for every step key both the override and
\* the form define, the posted request carries the override's step object.
C13_OverrideStepsWin ==
    [][\A values \in Values :
          (OnSend(values) /\ ~Invalid(values) /\ values.payload.kind = "json")
          => LET payload == values.payload.val IN
             /\ sendTask'.body.command = OrStr(payload.command, "ota_update")
             /\ \A k \in (DOMAIN payload.steps) \cap FormStepKeys(values) :
                   sendTask'.body.steps[k] = payload.steps[k]]_vars

\* C14: when the dispatch has succeeded (sendOta resolved with the new
\* command_id), Command History holds a record for that command_id with status
\* pending and no per-device statuses, before any snapshot or event is applied.
C14_PendingRecordInserted ==
    [][SendOtaOk =>
          \E i \in 1..Len(commands') :
              /\ commands'[i].command_id = sendTask.command_id
              /\ commands'[i].status = "pending"
              /\ commands'[i].per_device = NoRows]_vars

\* ------------------------------------------------- OTA page, unknown acks (SpecOTA)
\* no command of the history has the command_id of msg
Unknown(cmds, msg) == \A i \in 1..Len(cmds) : cmds[i].command_id # msg.command_id

\* C15: an ack whose command_id matches no command of Command History is dropped:
\* the history is unchanged (its length, every field of every command), and an
\* ack handled next has the effect it would have had without the dropped one.
C15_UnknownAckDropped ==
    \A msg \in AckMsgs :
        Unknown(commands, msg) =>
            /\ ApplyAck(commands, msg) = commands
            /\ \A next \in {Ack(CmdIds[1], "d1", MaxTs), Ack(CmdIds[2], "d2", 1)} :
                  ApplyAck(ApplyAck(commands, msg), next) = ApplyAck(commands, next)

\* C15, its case: the loaded history has logged an ack for c1, and an ack for a
\* command_id it does not hold leaves it as it is.
C15_LoadedAndUnknown ==
    /\ Len(commands) = 2
    /\ LoggedAcks(commands) >= 1
    /\ Unknown(commands, Ack(UnknownCmd, "d1", 1))
    /\ ApplyAck(commands, Ack(UnknownCmd, "d1", 1)) = commands

\* ------------------------------------------------- Devices page, begin (SpecPending)
\* C16: a begin of a get_configuration (health_check) request for device d leaves
\* the entry for d stamped with the current time and without a command_id, also
\* when it replaces an entry that had learned one.
C16_BeginStartsAfresh ==
    [][\A i \in 1..Len(devices) :
          /\ (OnGetConfig(devices[i]) /\ KeyOf(devices[i]) # None)
                => /\ KeyOf(devices[i]) \in DOMAIN pendingConfig'
                   /\ pendingConfig'[KeyOf(devices[i])] =
                          [command_id |-> None, started_at |-> now]
          /\ (OnHealthCheck(devices[i]) /\ KeyOf(devices[i]) # None)
                => /\ KeyOf(devices[i]) \in DOMAIN pendingHealth'
                   /\ pendingHealth'[KeyOf(devices[i])] =
                          [command_id |-> None, started_at |-> now]]_vars

\* ------------------------------------------------- OTA page, statuses (SpecOTA)
\* C17: once a command's status in Command History is acked or failed, no step
\* (an ack, the application of a history snapshot) gives that command another
\* status.
C17_TerminalStatusStays ==
    [][\A i \in 1..Len(commands), j \in 1..Len(commands') :
          (/\ commands[i].status \in {"acked", "failed"}
           /\ commands'[j].command_id = commands[i].command_id)
          => commands'[j].status = commands[i].status]_vars

\* C19: an ack for a known command sets last_update to the event's timestamp, or
\* to the local clock when the event carries none.
C19_LastUpdateFromEventOrClock ==
    [][\A msg \in AckMsgs :
          (OnAck(msg) /\ ~Unknown(commands, msg))
          => commands'[FindIndex(commands, msg.command_id)].last_update =
                 IF msg.timestamp # NoTs THEN msg.timestamp ELSE now]_vars

\* ------------------------------------------------- Devices page, upsert (SpecDevices)
\* C20: after a config (health) event for key k is handled, the registry holds an
\* entry with key k whose latest_configuration (latest_health) is the one built
\* from the event, also when no entry with key k existed before.
C20_EventUpserts ==
    [][\A msg \in RegistryMsgs :
          /\ (OnConfig(msg) /\ msg.sensor_id # None)
                => \E i \in 1..Len(devices') :
                      /\ KeyOf(devices'[i]) = msg.sensor_id
                      /\ devices'[i].latest_configuration =
                             NextLatestConfiguration(msg, now)
          /\ (OnHealth(msg) /\ msg.sensor_id # None)
                => \E i \in 1..Len(devices') :
                      /\ KeyOf(devices'[i]) = msg.sensor_id
                      /\ devices'[i].latest_health = NextLatestHealth(msg, now)]_vars

\* ------------------------------------------------- both pages (SpecEvents)
\* the collections and the error banner are as they were
Intact ==
    /\ devices' = devices
    /\ commands' = commands
    /\ pendingConfig' = pendingConfig
    /\ pendingHealth' = pendingHealth
    /\ error' = error

C21_StatusMergesOrAppends ==
    [][\A msg \in RegistryMsgs :
          (OnDeviceStatus(msg) /\ msg.sensor_id # None)
          => LET k == msg.sensor_id
                 had == {i \in 1..Len(devices) : KeyOf(devices[i]) = k} IN
             /\ \E i \in 1..Len(devices') :
                   KeyOf(devices'[i]) = k /\ devices'[i].online = msg.online
             /\ IF had # {}
                THEN /\ Len(devices') = Len(devices)
                     /\ \A j \in (1..Len(devices)) \ had : devices'[j] = devices[j]
                ELSE /\ Len(devices') = Len(devices) + 1
                     /\ \A j \in 1..Len(devices) : devices'[j] = devices[j]
                     /\ KeyOf(devices'[Len(devices')]) = k]_vars

\* ------------------------------------------------- OTA page, per-device rows (SpecOTA)
\* C22: once a command's per-device row for device d has status acked or failed,
\* a later ack for the same command and device does not give the row the other
\* status.
C22_RowStatusStays ==
    [][\A msg \in AckMsgs :
          OnAck(msg)
          => \A i \in 1..Len(commands) :
                \A d \in DOMAIN commands[i].per_device :
                    commands[i].per_device[d].status \in {"acked", "failed"}
                    => commands'[i].per_device[d].status =
                           commands[i].per_device[d].status]_vars

\* ------------------------------------------------- Devices page, failed requests (SpecSweep)
\* the config / health event msg clears the entry that pending holds for d
ClearsEntry(pending, d, msg) ==
    \/ msg.sensor_id = d
    \/ msg.command_id # None /\ pending[d].command_id = msg.command_id

C24_CommandIdClearsAll ==
    [][\A msg \in PendingMsgs :
          (OnConfigOld(msg) /\ msg.sensor_id # None /\ msg.command_id # None)
          => \A d \in DOMAIN pendingConfig :
                IF pendingConfig[d].command_id = msg.command_id
                THEN d \notin DOMAIN pendingConfig'
                ELSE d # msg.sensor_id
                     => d \in DOMAIN pendingConfig' /\ pendingConfig'[d] = pendingConfig[d]]_vars

\* ------------------------------------------------- repeated events (SpecDevices)
\* the event msg as the backend sends it when it stamps it with a receipt time
Stamped(msg) == [msg EXCEPT !.timestamp = Newest]

\* C25: applying the identical config, health or device_status event (carrying
\* a timestamp) twice in a row leaves the registry and both pending maps as
\* applying it once does.
C25_EventIdempotent ==
    \A m \in RegistryMsgs :
        LET msg == Stamped(m) IN
        msg.sensor_id # None
        => /\ msg.type = "config"
              => /\ SetLatestConfiguration(SetLatestConfiguration(devices, msg, now), msg, now)
                       = SetLatestConfiguration(devices, msg, now)
                 /\ ClearPending(ClearPending(pendingConfig, msg), msg)
                       = ClearPending(pendingConfig, msg)
           /\ msg.type = "health"
              => /\ SetLatestHealth(SetLatestHealth(devices, msg, now), msg, now)
                       = SetLatestHealth(devices, msg, now)
                 /\ ClearPending(ClearPending(pendingHealth, msg), msg)
                       = ClearPending(pendingHealth, msg)
           /\ msg.type = "device_status"
              => ApplyDeviceStatus(ApplyDeviceStatus(devices, msg), msg)
                    = ApplyDeviceStatus(devices, msg)

\* ------------------------------------------------- overlapping requests (SpecPending)
\* the entry that pending holds for sid carries the id of a request issued after
\* the n-th
HoldsLaterId(pending, sid, n) ==
    /\ sid \in DOMAIN pending
    /\ \E m \in (n + 1)..issued : pending[sid].command_id = GetIds[m]

\* C26: when a request for (d, op) is begun twice before either response returns
\* and no event clears the entry, the entry carries the command_id of the second
\* request after both responses were processed, in either order: the response
\* of the earlier request, processed last, leaves the later request's id.
C26_LatestRequestWins ==
    [][\A r \in requests :
          Resolved(r, TRUE)
          => /\ (r.op = "get_configuration" /\ HoldsLaterId(pendingConfig, r.sid, r.n))
                   => pendingConfig'[r.sid].command_id = pendingConfig[r.sid].command_id
             /\ (r.op = "health_check" /\ HoldsLaterId(pendingHealth, r.sid, r.n))
                   => pendingHealth'[r.sid].command_id = pendingHealth[r.sid].command_id]_vars

\* ------------------------------------------------- registry keys (SpecDevices)
\* C27: no two registry entries share a canonical key (sensor_id, else
\* device_id), whatever device_status, config and health events were applied,
\* also when the device object of a device_status event carries other ids than
\* the event's sensor_id.
C27_KeysDistinct ==
    \A i \in 1..Len(devices) : \A j \in 1..Len(devices) :
        i # j => KeyOf(devices[i]) # KeyOf(devices[j])

\* ------------------------------------------------- OTA page, frame of an ack (SpecOTA)
\* C28: an ack for a known command changes only that command's ack, acks,
\* per_device and last_update: its command_id, status, targets, created_at and
\* reason, the number and order of the commands, and every other command are
\* as before.
C28_AckFrame ==
    \A msg \in AckMsgs :
        ~Unknown(commands, msg)
        => LET idx == FindIndex(commands, msg.command_id)
               next == ApplyAck(commands, msg) IN
           /\ Len(next) = Len(commands)
           /\ \A i \in 1..Len(commands) :
                 IF i = idx
                 THEN /\ next[i].command_id = commands[i].command_id
                      /\ next[i].status = commands[i].status
                      /\ next[i].targets = commands[i].targets
                      /\ next[i].created_at = commands[i].created_at
                      /\ next[i].reason = commands[i].reason
                 ELSE next[i] = commands[i]

\* C28, its case: c2, which had failed, has logged an ack and still reads failed
\* with its reason, while c1 before it in the history has logged none.
C28_FailedCommandAcked ==
    /\ Len(commands) = 2
    /\ commands[1].command_id = CmdIds[1]
    /\ commands[1].acks = <<>>
    /\ commands[2].command_id = CmdIds[2]
    /\ Len(commands[2].acks) >= 1
    /\ commands[2].status = "failed"
    /\ commands[2].reason = "error"

\* ------------------------------------------------- the two operation kinds (SpecPending)
\* C29: a config event never adds, removes or changes a health_check pending
\* entry or a device's latest_health, and a health event never adds, removes or
\* changes a get_configuration pending entry or a device's latest_configuration,
\* also for the same device and the same command_id.
C29_KindsIndependent ==
    [][\A msg \in PendingMsgs :
          /\ OnConfig(msg)
                => /\ pendingHealth' = pendingHealth
                   /\ Len(devices') = Len(devices)
                   /\ \A i \in 1..Len(devices) :
                         devices'[i].latest_health = devices[i].latest_health
          /\ OnHealth(msg)
                => /\ pendingConfig' = pendingConfig
                   /\ Len(devices') = Len(devices)
                   /\ \A i \in 1..Len(devices) :
                         devices'[i].latest_configuration = devices[i].latest_configuration]_vars

\* C29, its case: the config event of d1 carrying g1 was handled while d1's
\* health_check entry, which holds g1, was pending: the entry is still there.
C29_HealthEntryKept ==
    /\ lastEvent.kind = "config"
    /\ lastEvent.sensor_id = "d1"
    /\ lastEvent.command_id = GetIds[1]
    /\ "d1" \in DOMAIN pendingHealth
    /\ pendingHealth["d1"].command_id = GetIds[1]
    /\ requests = {}

\* ------------------------------------------------- one sweep (SpecSweep)
\* the entries of pending that are older than 30 s at time clock
Expired(pending, clock) ==
    {s \in DOMAIN pending : clock - pending[s].started_at > TimeoutMs}

\* C30: a run of the timeout cleanup removes exactly the pending entries older
\* than 30 s; the entries aged 30 s or less keep their command_id and
\* started_at, the registry is untouched, and no request is issued or withdrawn.
C30_SweepFrame ==
    [][(Tick /\ now' % SweepMs = 0)
       => /\ DOMAIN pendingConfig' = (DOMAIN pendingConfig) \ Expired(pendingConfig, now')
          /\ \A s \in DOMAIN pendingConfig' : pendingConfig'[s] = pendingConfig[s]
          /\ DOMAIN pendingHealth' = (DOMAIN pendingHealth) \ Expired(pendingHealth, now')
          /\ \A s \in DOMAIN pendingHealth' : pendingHealth'[s] = pendingHealth[s]
          /\ devices' = devices
          /\ requests' = requests
          /\ issued' = issued
          /\ devFetch' = devFetch
          /\ editTask' = editTask
          /\ error' = error]_vars

\* C30, its case: the cleanup has just run 31 s after d1's get_configuration
\* was begun and 30 s after its health_check was begun: the first entry is
\* gone, the second is kept as it was, and the unanswered requests are still
\* in flight.
C30_OneGoneOneKept ==
    /\ now = 2 * SweepMs + TimeoutMs
    /\ "d1" \notin DOMAIN pendingConfig
    /\ "d1" \in DOMAIN pendingHealth
    /\ pendingHealth["d1"] = [command_id |-> None, started_at |-> 2 * SweepMs]
    /\ Cardinality(requests) = 2
    /\ \A r \in requests : r.sid = "d1" /\ ~r.answered

====
